---- MODULE Spec2Model ----
(***************************************************************************)
(* SnapVolt e-commerce backend: the product listing (routes.get_products)  *)
(* and the login/register dispatcher (routes.auth) over the two tables of  *)
(* database.py (products, users).                                          *)
(*                                                                         *)
(* Text values that the code inspects character by character (the query    *)
(* parameters, product ids and categories) are sequences of one-character  *)
(* strings.  Opaque text (emails, passwords, names, messages) is a string. *)
(* Prices are in cents and ratings in tenths, so that the floating point   *)
(* comparisons of the store become integer comparisons.                    *)
(***************************************************************************)
EXTENDS Integers, Sequences, FiniteSets, TLC

\* ------------------------------------------------------------------ bounds
\* largest limit and offset a listing request carries
MaxLimit == 13
MaxOffset == 13

\* ------------------------------------------------------------ text helpers
\* the characters that occur in the model, in code point order
Chars ==
  << "-", "0", "1", "2", "3", "4", "5", "6", "7", "8", "9",
     "A", "B", "C", "D", "E", "F", "G", "H", "I", "J", "K", "L", "M",
     "N", "O", "P", "Q", "R", "S", "T", "U", "V", "W", "X", "Y", "Z",
     "a", "b", "c", "d", "e", "f", "g", "h", "i", "j", "k", "l", "m",
     "n", "o", "p", "q", "r", "s", "t", "u", "v", "w", "x", "y", "z" >>

\* the position of each character in Chars
CharIndex ==
  [c \in { Chars[i] : i \in 1..Len(Chars) } |-> CHOOSE i \in 1..Len(Chars) : Chars[i] = c]

Ord(c) ==
  CharIndex[c]

\* str.lower(): upper case letters are moved to lower case, the rest is kept
lower(s) ==
  [i \in 1..Len(s) |-> IF Ord(s[i]) \in 12..37 THEN Chars[Ord(s[i]) + 26] ELSE s[i]]

\* byte-wise comparison of two texts (the store's BINARY collation): a < b
RECURSIVE TextLess(_, _)
TextLess(a, b) ==
  IF b = <<>> THEN FALSE
  ELSE IF a = <<>> THEN TRUE
  ELSE IF Ord(Head(a)) # Ord(Head(b)) THEN Ord(Head(a)) < Ord(Head(b))
  ELSE TextLess(Tail(a), Tail(b))

IsDigit(c) ==
  Ord(c) \in 2..11

\* int(): an optional sign followed by decimal digits; anything else raises
IsIntLiteral(s) ==
  LET body == IF s # <<>> /\ Head(s) = "-" THEN Tail(s) ELSE s
  IN  body # <<>> /\ \A i \in 1..Len(body) : IsDigit(body[i])

RECURSIVE DigitsValue(_)
DigitsValue(s) ==
  IF s = <<>> THEN 0
  ELSE 10 * DigitsValue(SubSeq(s, 1, Len(s) - 1)) + (Ord(s[Len(s)]) - 2)

int(s) ==
  IF Head(s) = "-" THEN 0 - DigitsValue(Tail(s)) ELSE DigitsValue(s)

\* the decimal text a client sends for the integer n
RECURSIVE NatText(_)
NatText(n) ==
  IF n < 10 THEN << Chars[n + 2] >>
  ELSE Append(NatText(n \div 10), Chars[(n % 10) + 2])

IntText(n) ==
  IF n < 0 THEN << "-" >> \o NatText(0 - n) ELSE NatText(n)

\* dict.get(key, default) of a request's query arguments or JSON body
Get(d, key, default) ==
  IF key \in DOMAIN d THEN d[key] ELSE default

\* --------------------------------------------------------- the seed catalog
cases == << "c", "a", "s", "e", "s" >>
protectors == << "p", "r", "o", "t", "e", "c", "t", "o", "r", "s" >>
chargers == << "c", "h", "a", "r", "g", "e", "r", "s" >>
mounts == << "m", "o", "u", "n", "t", "s" >>

Product(id, name, category, price, rating, reviews) ==
  [id |-> id, name |-> name, category |-> category, price |-> price,
   rating |-> rating, reviews |-> reviews]

initial_products_data ==
  << Product(<< "p", "1" >>, "Ultra Protective Case", cases, 2999, 48, 125),
     Product(<< "p", "2" >>, "Tempered Glass Screen Protector", protectors, 1999, 45, 98),
     Product(<< "p", "3" >>, "Fast Wireless Charger Pad", chargers, 3499, 47, 150),
     Product(<< "p", "4" >>, "Universal Car Mount", mounts, 2499, 42, 70),
     Product(<< "p", "5" >>, "Clear Hybrid Case", cases, 2299, 46, 80),
     Product(<< "p", "6" >>, "Privacy Screen Protector", protectors, 2599, 43, 60),
     Product(<< "p", "7" >>, "Multi-Port Wall Charger", chargers, 2999, 47, 110),
     Product(<< "p", "8" >>, "Magnetic Air Vent Mount", mounts, 1899, 44, 55),
     Product(<< "p", "9" >>, "Slim Fit Case", cases, 1999, 45, 90),
     Product(<< "p", "1", "0" >>, "Matte Screen Protector", protectors, 1599, 41, 45),
     Product(<< "p", "1", "1" >>, "Portable Power Bank", chargers, 4599, 48, 180),
     Product(<< "p", "1", "2" >>, "Bike Phone Mount", mounts, 2899, 40, 30) >>

\* ------------------------------------------------------------------- state
VARIABLES
  running,   \* the application has been started (app.py has run init_db)
  products,  \* rows of the products table, in rowid (insertion) order
  init_log,  \* what the last run of init_db printed about the catalog
  users,     \* rows of the users table, in id order
  pc,        \* per worker thread: "idle", or "commit" between lookup and commit
  locals,    \* per worker thread: data and new_user of the register request it handles
  auth_req,  \* the most recently answered auth request: action and JSON body
  auth_resp, \* its response: status, message, user
  db_access, \* number of Data Store calls the most recently answered auth request made
  created,   \* <<email, password, name>> of every register request answered 201
  list_args, \* query arguments of the most recent listing request
  scan,      \* the order in which the store delivered unordered rows to it
  list_resp, \* its response
  walk       \* a client paging through a listing: its parameters and what it got

vars ==
  << running, products, init_log, users, pc, locals, auth_req, auth_resp, db_access,
     created, list_args, scan, list_resp, walk >>

auth_vars ==
  << users, pc, locals, auth_req, auth_resp, db_access, created >>

list_vars ==
  << list_args, scan, list_resp, walk >>

\* ------------------------------------------------------------ the products
\* Row orders in which the store may deliver the rows of a table when the
\* query leaves their relative order open: by rowid, by rowid backwards, or
\* along the primary key index (ids in collation order).
ScanOrders == { "rowid", "rowid_desc", "pk_index" }

Reverse(rows) ==
  [i \in 1..Len(rows) |-> rows[Len(rows) + 1 - i]]

\* the ORDER BY clauses: row a sorts strictly before row b
Precedes(clause, a, b) ==
  CASE clause = "id ASC" -> TextLess(a.id, b.id)
    [] clause = "id DESC" -> TextLess(b.id, a.id)
    [] clause = "price ASC" -> a.price < b.price
    [] clause = "price DESC" -> a.price > b.price
    [] clause = "reviews DESC, rating DESC" ->
         a.reviews > b.reviews \/ (a.reviews = b.reviews /\ a.rating > b.rating)

\* rows with x put in front of the first row it has to precede
RECURSIVE InsertBefore(_, _, _)
InsertBefore(x, rows, clause) ==
  IF rows = <<>> THEN << x >>
  ELSE IF Precedes(clause, x, Head(rows)) THEN << x >> \o rows
  ELSE << Head(rows) >> \o InsertBefore(x, Tail(rows), clause)

\* rows sorted by the clause; rows that it leaves unordered keep their order
RECURSIVE SortRows(_, _)
SortRows(rows, clause) ==
  IF rows = <<>> THEN <<>>
  ELSE InsertBefore(rows[Len(rows)], SortRows(SubSeq(rows, 1, Len(rows) - 1), clause), clause)

Scan(table, order) ==
  CASE order = "rowid" -> table
    [] order = "rowid_desc" -> Reverse(table)
    [] order = "pk_index" -> SortRows(table, "id ASC")

\* query.filter(Product.category == category_filter)
RECURSIVE filter(_, _)
filter(rows, category_filter) ==
  IF rows = <<>> THEN <<>>
  ELSE IF Head(rows).category = category_filter
       THEN << Head(rows) >> \o filter(Tail(rows), category_filter)
       ELSE filter(Tail(rows), category_filter)

newest == << "n", "e", "w", "e", "s", "t" >>
price_low == << "p", "r", "i", "c", "e", "-", "l", "o", "w" >>
price_high == << "p", "r", "i", "c", "e", "-", "h", "i", "g", "h" >>
popular == << "p", "o", "p", "u", "l", "a", "r" >>
all == << "a", "l", "l" >>

\* the chain with the directions of the two price orders exchanged
order_by_price_swapped(rows, sort_by) ==
  IF sort_by = newest THEN SortRows(rows, "id DESC")
  ELSE IF sort_by = price_low THEN SortRows(rows, "price DESC")
  ELSE IF sort_by = price_high THEN SortRows(rows, "price ASC")
  ELSE IF sort_by = popular THEN SortRows(rows, "reviews DESC, rating DESC")
  ELSE rows

\* the if/elif chain that adds an ORDER BY to the query; no branch, no ORDER BY
order_by(rows, sort_by) ==
  IF sort_by = newest THEN SortRows(rows, "id DESC")
  ELSE IF sort_by = price_low THEN SortRows(rows, "price ASC")
  ELSE IF sort_by = price_high THEN SortRows(rows, "price DESC")
  ELSE IF sort_by = popular THEN SortRows(rows, "reviews DESC, rating DESC")
  ELSE rows

\* query.count()
count(rows) ==
  Len(rows)

\* rows[offset:limit]: the limit taken as the end of the slice
offset_limit_as_end(rows, offset, limit) ==
  LET skip == IF offset < 0 THEN 0 ELSE IF offset > Len(rows) THEN Len(rows) ELSE offset
      stop == IF limit < 0 \/ limit > Len(rows) THEN Len(rows) ELSE limit
  IN  SubSeq(rows, skip + 1, stop)

\* query.offset(offset).limit(limit).all(): the store reads a negative
\* OFFSET as 0 and a negative LIMIT as no limit
offset_limit(rows, offset, limit) ==
  LET skip == IF offset < 0 THEN 0 ELSE IF offset > Len(rows) THEN Len(rows) ELSE offset
      rest == SubSeq(rows, skip + 1, Len(rows))
  IN  IF limit < 0 \/ limit >= Len(rest) THEN rest ELSE SubSeq(rest, 1, limit)

\* category_filter = request.args.get('category', 'all').lower()
category_filter_raw(args) ==
  Get(args, "category", all)

category_filter_of(args) ==
  lower(Get(args, "category", all))

\* sort_by = request.args.get('sort', 'popular').lower()
sort_by_of(args) ==
  lower(Get(args, "sort", popular))

\* limit = int(request.args.get('limit', 8))
limit_of(args) ==
  IF "limit" \in DOMAIN args THEN int(args["limit"]) ELSE 8

\* offset = int(request.args.get('offset', 0))
offset_of(args) ==
  IF "offset" \in DOMAIN args THEN int(args["offset"]) ELSE 0

\* the query after the optional filter and the optional ORDER BY, as the rows
\* it yields when the store delivers the table's rows in the given order
query_of(table, args, order) ==
  LET rows == Scan(table, order)
      filtered == IF category_filter_of(args) # all
                  THEN filter(rows, category_filter_of(args))
                  ELSE rows
  IN  order_by(filtered, sort_by_of(args))

\* Product.serialize, for the fields of the model
serialize(product) ==
  [id |-> product.id, name |-> product.name, category |-> product.category,
   price |-> product.price, rating |-> product.rating, reviews |-> product.reviews]

serialize_all(rows) ==
  [i \in 1..Len(rows) |-> serialize(rows[i])]

\* int() raises on a limit or offset that is not an integer literal
parse_failure(args) ==
  \/ ("limit" \in DOMAIN args /\ ~IsIntLiteral(args["limit"]))
  \/ ("offset" \in DOMAIN args /\ ~IsIntLiteral(args["offset"]))

get_products_total_of_page(table, args, order) ==
  IF parse_failure(args) THEN [status |-> 500]
  ELSE LET page == offset_limit(query_of(table, args, order), offset_of(args), limit_of(args))
       IN  [status |-> 200,
            products |-> serialize_all(page),
            total |-> count(page),
            limit |-> limit_of(args),
            offset |-> offset_of(args)]

\* the response of get_products to args when the store delivers rows in order
get_products_response(table, args, order) ==
  IF parse_failure(args) THEN [status |-> 500]
  ELSE LET query == query_of(table, args, order)
       IN  [status |-> 200,
            products |-> serialize_all(offset_limit(query, offset_of(args), limit_of(args))),
            total |-> count(query),
            limit |-> limit_of(args),
            offset |-> offset_of(args)]

\* ---- listing requests
NoResponse == [status |-> 0]

Threads == { "t1", "t2" }

Absent == << "<absent>" >>

CategoryArgs ==
  { Absent, all, << "A", "L", "L" >>, cases, << "C", "A", "S", "E", "S" >>,
    << "C", "a", "s", "e", "s" >>, mounts, << "C", "h", "a", "r", "g", "e", "r", "s" >>,
    << "b", "a", "g", "s" >> }

SortArgs ==
  { Absent, popular, newest, << "N", "e", "w", "e", "s", "t" >>, price_low, price_high,
    << "P", "R", "I", "C", "E", "-", "L", "O", "W" >>, << "r", "a", "t", "i", "n", "g" >> }

LimitArgs ==
  { Absent, << "x" >> } \cup { IntText(n) : n \in (0 - 1)..MaxLimit }

OffsetArgs ==
  { Absent, << "x" >> } \cup { IntText(n) : n \in (0 - 1)..MaxOffset }

\* request.args: the parameters that are present
Args(category, sort, limit, offset) ==
  LET full == [category |-> category, sort |-> sort, limit |-> limit, offset |-> offset]
  IN  [k \in { key \in DOMAIN full : full[key] # Absent } |-> full[k]]

\* ------------------------------------------------------------------ users
\* Python's None where a text is expected
None == "<None>"

\* "not v" for a text or None
falsy(v) ==
  v = None \/ v = ""

\* werkzeug.security: a salted one-way hash, kept as the salt and the digest
\* of salt and password (the digest of an ideal hash: no two inputs collide)
Salts == { "s1", "s2" }

digest(salt, password) ==
  << "digest", salt, password >>

generate_password_hash(password, salt) ==
  [salt |-> salt, digest |-> digest(salt, password)]

\* a verification that re-derives the digest without the stored salt
check_password_hash_unsalted(pwhash, password) ==
  pwhash.digest = digest("s1", password)

check_password_hash(pwhash, password) ==
  pwhash.digest = digest(pwhash.salt, password)

\* User.__init__ with set_password; the id is assigned by the store on insert
User(name, email, password, salt) ==
  [id |-> 0, name |-> name, email |-> email,
   password_hash |-> generate_password_hash(password, salt)]

\* User.check_password
check_password(user, password) ==
  check_password_hash(user.password_hash, password)

\* what .first() gives when no row matches
NoRow ==
  [id |-> 0, name |-> None, email |-> None,
   password_hash |-> [salt |-> None, digest |-> <<>>]]

\* a lookup that compares the name column
RECURSIVE first_by_name(_, _)
first_by_name(rows, email) ==
  IF rows = <<>> THEN NoRow
  ELSE IF Head(rows).name = email THEN Head(rows)
  ELSE first_by_name(Tail(rows), email)

\* User.query.filter_by(email=email).first()
RECURSIVE first_by_email(_, _)
first_by_email(rows, email) ==
  IF rows = <<>> THEN NoRow
  ELSE IF Head(rows).email = email THEN Head(rows)
  ELSE first_by_email(Tail(rows), email)

\* a users table without the UNIQUE constraint
unique_violation_never(rows, row) ==
  FALSE

\* the UNIQUE constraint of users.email rejects the insert of a row
unique_violation(rows, row) ==
  \E i \in 1..Len(rows) : rows[i].email = row.email

\* INSERT OR REPLACE: the new row takes the place of the rows before it
insert_or_replace(rows, row) ==
  << [row EXCEPT !.id = Len(rows) + 1] >>

\* INSERT: the store assigns the next integer primary key
insert(rows, row) ==
  Append(rows, [row EXCEPT !.id = Len(rows) + 1])

\* ---- the auth handler
\* a check that only fails when both are missing
missing_credentials_both(email, password) ==
  falsy(email) /\ falsy(password)

missing_credentials(email, password) ==
  falsy(email) \/ falsy(password)

Response(status, message) ==
  [status |-> status, message |-> message]

\* a login branch that tells an unknown email from a wrong password
login_response_leaky(user, password) ==
  IF user = NoRow THEN Response(401, "No account with this email.")
  ELSE IF check_password(user, password)
  THEN [status |-> 200, message |-> "Login successful!",
        user |-> [email |-> user.email, name |-> user.name]]
  ELSE Response(401, "Invalid email or password.")

\* the login branch, given the row that the lookup found
login_response(user, password) ==
  IF user # NoRow /\ check_password(user, password)
  THEN [status |-> 200, message |-> "Login successful!",
        user |-> [email |-> user.email, name |-> user.name]]
  ELSE Response(401, "Invalid email or password.")

\* ---- auth requests
Emails == { "ann@snapvolt.io", "bob@snapvolt.io" }
Passwords == { "hunter2", "s3cret" }
Names == { "Ann", "Bob" }
Actions == { None, "login", "register", "logout" }

\* request.get_json(): the fields that are present; an empty object is <<>>
Body(email, password, name) ==
  LET full == [email |-> email, password |-> password, name |-> name]
  IN  [k \in { key \in DOMAIN full : full[key] # None } |-> full[k]]

Bodies ==
  { Body(email, password, name) :
      email \in Emails \cup { None, "" },
      password \in Passwords \cup { None, "" },
      name \in Names \cup { None, "" } }

NoLocals == [data |-> <<>>, new_user |-> NoRow]

\* ---------------------------------------------------------------- actions
\* a start that loads the catalog whether or not the table is empty
init_db_unguarded ==
  /\ running' = TRUE
  /\ products' = products \o initial_products_data
  /\ init_log' = "Initial product data populated successfully."
  /\ pc' = [t \in DOMAIN pc |-> "idle"]
  /\ locals' = [t \in DOMAIN locals |-> NoLocals]
  /\ UNCHANGED << users, auth_req, auth_resp, db_access, created, list_vars >>

\* app.py runs init_db when the application (re)starts: the tables are
\* created and the catalog is loaded if the products table is empty
init_db ==
  /\ running' = TRUE
  /\ products' = IF Len(products) = 0 THEN initial_products_data ELSE products
  /\ init_log' = IF Len(products) = 0
                 THEN "Initial product data populated successfully."
                 ELSE "Database already contains product data, skipping initial population."
  /\ pc' = [t \in DOMAIN pc |-> "idle"]
  /\ locals' = [t \in DOMAIN locals |-> NoLocals]
  /\ UNCHANGED << users, auth_req, auth_resp, db_access, created, list_vars >>

\* one listing request is answered at a time: the client takes the response
\* before the next request is answered
list_products(categories, sorts, limits, offsets) ==
  /\ running
  /\ list_resp = NoResponse
  /\ \E category \in categories, sort \in sorts, limit \in limits,
        offset \in offsets, order \in ScanOrders :
       /\ list_args' = Args(category, sort, limit, offset)
       /\ scan' = order
       /\ list_resp' = get_products_response(products, list_args', order)
  /\ UNCHANGED << running, products, init_log, auth_vars, walk >>

get_products ==
  list_products(CategoryArgs, SortArgs, LimitArgs, OffsetArgs)

\* the client has received the listing
listing_received ==
  /\ list_resp # NoResponse
  /\ list_args' = <<>>
  /\ scan' = "rowid"
  /\ list_resp' = NoResponse
  /\ UNCHANGED << running, products, init_log, auth_vars, walk >>


NoRequest == [action |-> "", data |-> <<>>]

NoWalk == [params |-> << Absent, Absent, Absent >>, pages |-> 0, total |-> 0, seen |-> <<>>]

Init ==
  /\ running = FALSE
  /\ products = <<>>
  /\ init_log = ""
  /\ walk = NoWalk
  /\ users = <<>>
  /\ pc = [t \in Threads |-> "idle"]
  /\ locals = [t \in Threads |-> NoLocals]
  /\ auth_req = NoRequest
  /\ auth_resp = NoResponse
  /\ db_access = 0
  /\ created = {}
  /\ list_args = <<>>
  /\ scan = "rowid"
  /\ list_resp = NoResponse

\* One auth response is observed at a time: the client takes it before the
\* next request is answered.  Requests are handled by the worker threads; a
\* register request that found no user stops between its lookup and its
\* commit, where the other thread may run.
Answer(action, data, response, accesses) ==
  /\ auth_req' = [action |-> action, data |-> data]
  /\ auth_resp' = response
  /\ db_access' = accesses

\* auth() up to its response, or up to the commit of a new user
auth(t) ==
  /\ running
  /\ pc[t] = "idle"
  /\ auth_resp = NoResponse
  /\ \E action \in Actions, data \in Bodies, salt \in Salts :
       LET email == Get(data, "email", None)
           password == Get(data, "password", None)
           name == Get(data, "name", None)
       IN  IF data = <<>>
           THEN /\ Answer(action, data, Response(400, "Invalid JSON data."), 0)
                /\ UNCHANGED << pc, locals >>
           ELSE IF missing_credentials(email, password)
           THEN /\ Answer(action, data, Response(400, "Email and password are required."), 0)
                /\ UNCHANGED << pc, locals >>
           ELSE IF action = "login"
           THEN /\ Answer(action, data,
                          login_response(first_by_email(users, email), password), 1)
                /\ UNCHANGED << pc, locals >>
           ELSE IF action = "register"
           THEN IF falsy(name)
                THEN /\ Answer(action, data,
                               Response(400, "Name is required for registration."), 0)
                     /\ UNCHANGED << pc, locals >>
                ELSE IF first_by_email(users, email) # NoRow
                THEN /\ Answer(action, data,
                               Response(409, "User with this email already exists."), 1)
                     /\ UNCHANGED << pc, locals >>
                ELSE /\ pc' = [pc EXCEPT ![t] = "commit"]
                     /\ locals' = [locals EXCEPT ![t] =
                          [data |-> data, new_user |-> User(name, email, password, salt)]]
                     /\ UNCHANGED << auth_req, auth_resp, db_access >>
           ELSE /\ Answer(action, data, Response(400, "Invalid authentication action."), 0)
                /\ UNCHANGED << pc, locals >>
  /\ UNCHANGED << running, products, init_log, users, created, list_vars >>

\* db_session.add(new_user); db_session.commit(); return 201.  A commit that
\* the store rejects raises out of the handler: the request ends in a 500.
commit(t) ==
  /\ running
  /\ pc[t] = "commit"
  /\ auth_resp = NoResponse
  /\ pc' = [pc EXCEPT ![t] = "idle"]
  /\ locals' = [locals EXCEPT ![t] = NoLocals]
  /\ IF unique_violation(users, locals[t].new_user)
     THEN /\ Answer("register", locals[t].data, [status |-> 500], 2)
          /\ UNCHANGED << users, created >>
     ELSE /\ users' = insert(users, locals[t].new_user)
          /\ Answer("register", locals[t].data,
                    Response(201, "Registration successful! Please login."), 2)
          /\ created' = created \cup
               { << locals[t].data["email"], locals[t].data["password"],
                    locals[t].data["name"] >> }
  /\ UNCHANGED << running, products, init_log, list_vars >>

\* the client has received the auth response
auth_received ==
  /\ auth_resp # NoResponse
  /\ auth_req' = NoRequest
  /\ auth_resp' = NoResponse
  /\ db_access' = 0
  /\ UNCHANGED << running, products, init_log, users, pc, locals, created, list_vars >>

Next ==
  \/ init_db
  \/ \E t \in Threads : auth(t)
  \/ \E t \in Threads : commit(t)
  \/ auth_received

Spec ==
  Init /\ [][Next]_vars

\* the requests are handled one after another: a request is taken up only
\* when no other request is between its lookup and its commit
SeqNext ==
  \/ init_db
  \/ \E t \in Threads : (\A u \in Threads \ { t } : pc[u] = "idle") /\ auth(t)
  \/ \E t \in Threads : (\A u \in Threads \ { t } : pc[u] = "idle") /\ commit(t)
  \/ auth_received

SeqSpec ==
  Init /\ [][SeqNext]_vars

\* Both endpoints served by one application.  One response is observed at a
\* time, and the listings are those of a few requests: the default one, a
\* second page, and a category in upper case.
FullNext ==
  \/ init_db
  \/ \E t \in Threads : list_resp = NoResponse /\ auth(t)
  \/ \E t \in Threads : list_resp = NoResponse /\ commit(t)
  \/ auth_received
  \/ /\ auth_resp = NoResponse
     /\ list_products({ Absent, << "C", "A", "S", "E", "S" >> }, { Absent }, { Absent },
                      { Absent, << "8" >> })
  \/ listing_received

FullSpec ==
  Init /\ [][FullNext]_vars

\* ---- a client that pages through a listing
\* the page sizes of the walks: absent (the default of 8) or 3 and more, so
\* that a walk of the catalog has at most four pages
WalkLimits ==
  { Absent } \cup { IntText(n) : n \in 3..MaxLimit }

WalkLimit ==
  IF walk.params[3] = Absent THEN 8 ELSE int(walk.params[3])

\* the client has asked for ceil(total / limit) pages
WalkComplete ==
  walk.pages > 0 /\ walk.pages * WalkLimit >= walk.total

\* the client asks for the next page of its walk: the category, the sort
\* and the limit of the first page, and the offset after the pages it has;
\* the store is free in its row order at every query
page_request ==
  /\ running
  /\ list_resp = NoResponse
  /\ ~WalkComplete
  /\ \E category \in CategoryArgs, sort \in SortArgs, limit \in WalkLimits,
        order \in ScanOrders :
       /\ walk.pages > 0 => walk.params = << category, sort, limit >>
       /\ walk' = [walk EXCEPT !.params = << category, sort, limit >>]
       /\ list_args' = Args(category, sort, limit,
                            IntText(walk.pages * (IF limit = Absent THEN 8 ELSE int(limit))))
       /\ scan' = order
       /\ list_resp' = get_products_response(products, list_args', order)
  /\ UNCHANGED << running, products, init_log, auth_vars >>

\* the client has received the page and keeps the ids of its products
page_received ==
  /\ list_resp # NoResponse
  /\ walk' = [walk EXCEPT !.pages = @ + 1,
                          !.total = list_resp.total,
                          !.seen = @ \o [i \in 1..Len(list_resp.products) |->
                                          list_resp.products[i].id]]
  /\ list_args' = <<>>
  /\ scan' = "rowid"
  /\ list_resp' = NoResponse
  /\ UNCHANGED << running, products, init_log, auth_vars >>

PagingNext ==
  \/ init_db
  \/ page_request
  \/ page_received

PagingSpec ==
  Init /\ [][PagingNext]_vars

CatalogNext ==
  \/ init_db
  \/ get_products
  \/ listing_received

CatalogSpec ==
  Init /\ [][CatalogNext]_vars

\* =============================================================== properties
\* ---- the product listing (CatalogSpec)
Min(a, b) ==
  IF a < b THEN a ELSE b

Max(a, b) ==
  IF a > b THEN a ELSE b

Listed ==
  list_resp # NoResponse /\ list_resp.status = 200

\* the integer whose decimal text the request carries for key
Requested(key, default) ==
  IF key \in DOMAIN list_args
  THEN CHOOSE n \in (0 - 1)..(Max(MaxLimit, MaxOffset) + 1) : IntText(n) = list_args[key]
  ELSE default

\* the category parameter asks for no filtering: absent, or "all" in any casing
Unfiltered ==
  "category" \notin DOMAIN list_args \/ lower(list_args["category"]) = all

\* the product is one the request asks for
Matches(product) ==
  Unfiltered \/ product.category = lower(list_args["category"])

MatchingRows ==
  { i \in 1..Len(products) : Matches(products[i]) }

\* adjacent products are in descending order of reviews, equal reviews in
\* descending order of rating
PopularOrder(rows) ==
  \A i \in 1..(Len(rows) - 1) :
    \/ rows[i].reviews > rows[i + 1].reviews
    \/ (rows[i].reviews = rows[i + 1].reviews /\ rows[i].rating >= rows[i + 1].rating)

RecognisedSorts == { newest, price_low, price_high, popular }

\* C3: a listing whose sort parameter is none of newest, price-low,
\* price-high, popular is in the popular order: descending reviews, equal
\* reviews by descending rating.
C3_UnrecognisedSortIsPopular ==
  (Listed /\ "sort" \in DOMAIN list_args /\ lower(list_args["sort"]) \notin RecognisedSorts)
    => PopularOrder(list_resp.products)

\* C8: the total of a listing is the number of stored products that match
\* the category parameter, whatever the limit, the offset and the sort are.
C8_TotalIsFilteredCount ==
  Listed => list_resp.total = Cardinality(MatchingRows)

C8_Witness ==
  /\ Listed
  /\ ~Unfiltered
  /\ list_resp.total = 3
  /\ Len(list_resp.products) = 1
  /\ list_resp.offset = 2
  /\ "sort" \in DOMAIN list_args

\* C9: for a positive limit and a non-negative offset the listing is the
\* slice [offset, offset+limit) of the filtered and sorted rows: it has
\* min(limit, max(0, total - offset)) products, all of them match the
\* filter, limit and offset are echoed, and on the seed catalog the default
\* request gives 8 products and offset=8, limit=8 gives the other 4.
C9_PageIsSlice ==
  (Listed /\ Requested("limit", 8) > 0 /\ Requested("offset", 0) >= 0) =>
    LET limit == Requested("limit", 8)
        offset == Requested("offset", 0)
        ordered == query_of(products, list_args, scan)
    IN  /\ list_resp.limit = limit
        /\ list_resp.offset = offset
        /\ Len(list_resp.products) = Min(limit, Max(0, list_resp.total - offset))
        /\ \A i \in 1..Len(list_resp.products) : Matches(list_resp.products[i])
        /\ \A i \in 1..Len(list_resp.products) :
             list_resp.products[i] = serialize(ordered[offset + i])
        /\ (Unfiltered /\ limit = 8 /\ offset = 0) =>
             (Len(list_resp.products) = 8 /\ list_resp.total = 12)
        /\ (Unfiltered /\ limit = 8 /\ offset = 8) =>
             (Len(list_resp.products) = 4 /\ list_resp.total = 12)

C9_Witness ==
  /\ Listed
  /\ list_args = [limit |-> << "8" >>, offset |-> << "8" >>]
  /\ Len(list_resp.products) = 4
  /\ list_resp.total = 12

\* C10: the category parameter is case-insensitive.  A request answers as
\* the request with the category in lower case does; "all" in any casing
\* and an absent category list every product; any other category lists
\* exactly the products of the case-normalised category; any casing of
\* "cases" has total 3 on the seed catalog.
C10_CategoryIgnoresCase ==
  Listed =>
    /\ "category" \in DOMAIN list_args =>
         list_resp = get_products_response(products,
                       [list_args EXCEPT !["category"] = lower(@)], scan)
    /\ list_resp.total = Cardinality(MatchingRows)
    /\ \A i \in 1..Len(list_resp.products) : Matches(list_resp.products[i])
    /\ Unfiltered => list_resp.total = Len(products)
    /\ ("category" \in DOMAIN list_args /\ lower(list_args["category"]) = cases) =>
         list_resp.total = 3

C10_Witness ==
  /\ Listed
  /\ "category" \in DOMAIN list_args
  /\ list_args["category"] = << "C", "A", "S", "E", "S" >>
  /\ Len(list_resp.products) = 3
  /\ list_resp.total = 3

\* ---- the auth dispatcher (Spec, SeqSpec)
Answered ==
  auth_resp # NoResponse

ReqEmail == Get(auth_req.data, "email", None)
ReqPassword == Get(auth_req.data, "password", None)
ReqName == Get(auth_req.data, "name", None)

\* a register request that carries email, password and name
FullRegister ==
  /\ Answered
  /\ auth_req.action = "register"
  /\ ~falsy(ReqEmail) /\ ~falsy(ReqPassword) /\ ~falsy(ReqName)

StoredEmails ==
  { users[i].email : i \in 1..Len(users) }

\* C1: a register request for an email that is registered, or is being
\* registered by a request in flight, is answered 201 or 409 and never ends
\* in a failure of the store.
C1_RegisterIs201Or409 ==
  FullRegister => auth_resp.status \in { 201, 409 }

\* C2: no two rows of the users table have the same email.
C2_EmailsUnique ==
  \A i, j \in 1..Len(users) : users[i].email = users[j].email => i = j

\* two registrations of one email both passed the lookup; one is stored
C2_Witness ==
  /\ Answered
  /\ auth_req.action = "register"
  /\ auth_resp.status = 500
  /\ ReqEmail \in StoredEmails
  /\ Len(users) = 2

\* C4: once a register request with email e, password p and name n was
\* answered 201, a login with e and p is answered 200 with user {e, n}.
C4_LoginAfterRegister ==
  (Answered /\ auth_req.action = "login") =>
    \A n \in Names :
      << ReqEmail, ReqPassword, n >> \in created =>
        /\ auth_resp.status = 200
        /\ auth_resp.user = [email |-> ReqEmail, name |-> n]

C4_Witness ==
  /\ Answered
  /\ auth_req.action = "login"
  /\ auth_resp.status = 200
  /\ << ReqEmail, ReqPassword, auth_resp.user.name >> \in created
  /\ Cardinality(created) = 2

\* the login names an email that was never registered
UnknownEmail ==
  \A p \in Passwords, n \in Names : << ReqEmail, p, n >> \notin created

\* the login names a registered email with another password than its own
WrongPassword ==
  /\ \E p \in Passwords, n \in Names : << ReqEmail, p, n >> \in created
  /\ \A n \in Names : << ReqEmail, ReqPassword, n >> \notin created

\* C5: a login with an unknown email and a login with a known email and a
\* wrong password get the same response: 401 with one message and no more.
C5_FailedLoginUndifferentiated ==
  (/\ Answered
   /\ auth_req.action = "login"
   /\ ~falsy(ReqEmail) /\ ~falsy(ReqPassword)
   /\ (UnknownEmail \/ WrongPassword))
    => auth_resp = Response(401, "Invalid email or password.")

C5_Witness ==
  /\ Answered
  /\ auth_req.action = "login"
  /\ ~falsy(ReqPassword)
  /\ WrongPassword
  /\ auth_resp.status = 401

\* C6: with the requests handled one after another, a register request with
\* a name whose email is already stored is answered 409 and the users table
\* stays as it is.
C6_DuplicateRegisterIs409 ==
  [][ (/\ auth_resp = NoResponse
       /\ auth_resp' # NoResponse
       /\ auth_req'.action = "register"
       /\ ~falsy(Get(auth_req'.data, "email", None))
       /\ ~falsy(Get(auth_req'.data, "password", None))
       /\ ~falsy(Get(auth_req'.data, "name", None))
       /\ Get(auth_req'.data, "email", None) \in StoredEmails)
      => (auth_resp'.status = 409 /\ users' = users) ]_vars

\* the duplicate came with another name and another password than the stored
C6_Witness ==
  /\ FullRegister
  /\ auth_resp.status = 409
  /\ \E i \in 1..Len(users) :
       /\ users[i].email = ReqEmail
       /\ users[i].name # ReqName
       /\ ~check_password_hash(users[i].password_hash, ReqPassword)

\* C7: an auth request without a non-empty email or without a non-empty
\* password is answered 400 without any call to the store, whatever the
\* action is, and not with the missing-name or unsupported-action message.
C7_MissingCredentialsFirst ==
  (Answered /\ (falsy(ReqEmail) \/ falsy(ReqPassword))) =>
    /\ auth_resp.status = 400
    /\ db_access = 0
    /\ auth_resp.message =
         IF auth_req.data = <<>> THEN "Invalid JSON data."
         ELSE "Email and password are required."

C7_Witness ==
  /\ Answered
  /\ auth_req.action = "register"
  /\ ~falsy(ReqEmail)
  /\ falsy(ReqPassword)
  /\ falsy(ReqName)
  /\ auth_resp.status = 400
  /\ Len(users) = 1

\* ---- the orderings (CatalogSpec)
\* the sort parameter as the handler reads it: lower case, popular if absent
RequestedSort ==
  IF "sort" \in DOMAIN list_args THEN lower(list_args["sort"]) ELSE popular

\* C11: adjacent products of a listing respect the ordering of its sort
\* value: price-low non-decreasing price, price-high non-increasing price,
\* popular (or no sort parameter) non-increasing reviews with equal reviews
\* in non-increasing rating, newest descending ids in the byte order of the
\* id text, so that 'p9' heads the unfiltered listing and precedes 'p12'.
C11_AdjacentRespectSort ==
  Listed =>
    LET rows == list_resp.products
    IN  /\ RequestedSort = price_low =>
             \A i \in 1..(Len(rows) - 1) : rows[i].price <= rows[i + 1].price
        /\ RequestedSort = price_high =>
             \A i \in 1..(Len(rows) - 1) : rows[i].price >= rows[i + 1].price
        /\ RequestedSort = popular => PopularOrder(rows)
        /\ RequestedSort = newest =>
             /\ \A i \in 1..(Len(rows) - 1) : TextLess(rows[i + 1].id, rows[i].id)
             /\ \A i, j \in 1..Len(rows) :
                  (rows[i].id = << "p", "9" >> /\ rows[j].id = << "p", "1", "2" >>) => i < j
             /\ (Unfiltered /\ list_resp.offset <= 0 /\ Len(rows) > 0) =>
                  rows[1].id = << "p", "9" >>

\* a newest listing that holds both p9 and p12
C11_Witness ==
  /\ Listed
  /\ RequestedSort = newest
  /\ \E i, j \in 1..Len(list_resp.products) :
       /\ list_resp.products[i].id = << "p", "9" >>
       /\ list_resp.products[j].id = << "p", "1", "2" >>

\* ---- the two tables (FullSpec)
\* the step answers an auth request
AnswersAuth ==
  auth_resp = NoResponse /\ auth_resp' # NoResponse

\* the step answers a listing request
AnswersListing ==
  list_resp = NoResponse /\ list_resp' # NoResponse

\* C12: the users table changes only in a step that answers a register
\* request with 201, and then by one added row, the rows before it kept as
\* they are; a step that answers a login, that answers an auth request with
\* 400, 401 or 409, or that answers a listing leaves the table as it is.
C12_UsersOnlyGrowByRegister ==
  [][ /\ users' # users =>
           /\ AnswersAuth
           /\ auth_req'.action = "register"
           /\ auth_resp'.status = 201
           /\ Len(users') = Len(users) + 1
           /\ SubSeq(users', 1, Len(users)) = users
           /\ users'[Len(users')].email = auth_req'.data["email"]
           /\ users'[Len(users')].name = auth_req'.data["name"]
      /\ (AnswersAuth /\ auth_resp'.status = 201) => Len(users') = Len(users) + 1
      /\ (AnswersAuth /\ auth_req'.action = "login") => users' = users
      /\ (AnswersAuth /\ auth_resp'.status \in { 400, 401, 409 }) => users' = users
      /\ AnswersListing => users' = users ]_vars

\* a second user was registered next to the first, and a listing was served
\* while both were stored
C12_Witness ==
  /\ Len(users) = 2
  /\ users[1].email # users[2].email
  /\ list_resp # NoResponse
  /\ list_resp.status = 200

\* C13: init_db loads the catalog only into an empty products table: once
\* the application has started the table is the 12 seed products, however
\* often init_db has run, and no step of a request handler changes it.
C13_SeedOnceThenReadOnly ==
  [][ /\ running => (products = initial_products_data /\ products' = products)
      /\ running' => (products' = initial_products_data /\ Len(products') = 12)
      /\ (AnswersAuth \/ AnswersListing) => products' = products ]_vars

\* init_db has run again on the loaded table, and requests were served
C13_Witness ==
  /\ running
  /\ init_log = "Database already contains product data, skipping initial population."
  /\ products = initial_products_data
  /\ Len(users) > 0
  /\ list_resp # NoResponse

\* ---- paging (PagingSpec)
\* the products that the category of the walk asks for
WalkMatching ==
  { i \in 1..Len(products) :
      \/ walk.params[1] = Absent
      \/ lower(walk.params[1]) = all
      \/ products[i].category = lower(walk.params[1]) }

\* C14: the pages of a walk with a fixed category, sort and positive limit,
\* at the offsets 0, limit, 2*limit, ... up to ceil(total/limit) pages, are
\* pairwise disjoint and together hold every matching product: each
\* matching product was received exactly once, also when products tie on
\* the sort key and the store orders tied rows differently in each query.
C14_WalkVisitsEachOnce ==
  WalkComplete =>
    /\ Len(walk.seen) = Cardinality(WalkMatching)
    /\ \A i \in WalkMatching :
         Cardinality({ k \in 1..Len(walk.seen) : walk.seen[k] = products[i].id }) = 1

====
